---- MODULE Spec2Model ----
(***************************************************************************)
(* Element stiffness matrices of fea-class (src/element_stiffness.py, read *)
(* from its compiled form element_stiffness.cpython-312.pyc).              *)
(*                                                                         *)
(* truss_2d_element(coord1, coord2, EA)     -> (K 4x4, theta)              *)
(* beam_2d_element(coord1, coord2, EA, EI)  -> (K 6x6, theta)              *)
(*                                                                         *)
(* Arithmetic.  The functions compute with numpy floats.  The model        *)
(* computes the same expressions, operation by operation and in the same   *)
(* order, in exact arithmetic: every quantity of one call lies in the      *)
(* field Q(sqrt q), q the square-free part of dx^2 + dy^2, so a number is  *)
(* the record [k, n, r, d, q] standing for (n + r*sqrt(q)) / d.  Division  *)
(* by a zero follows IEEE 754 as numpy does (no exception): k is then      *)
(* "nan", "pinf" or "ninf".  Rounding and signed zeros are not modelled.   *)
(* Matrices are tuples of rows, indexed from 1 (numpy index i is i + 1).   *)
(*                                                                         *)
(* Two notebooks of the repository are modelled next to the functions,     *)
(* each by a specification of its own:                                     *)
(*   LoadSpec  the load-stepping loop of the hyperelasticity notebook      *)
(*             (unnamed/part_000);                                         *)
(*   PC3Spec   the sympy cells of PC3/assignment_3.ipynb, run on numbers   *)
(*             in place of the symbols L, EI, G, A_eff.                    *)
(***************************************************************************)
EXTENDS Integers, Sequences, FiniteSets, TLC

VARIABLES coord1, coord2, EA, EI, pc, K, theta, prev

(* The load-stepping loop: the loop variable n, T.value, the function u    *)
(* (which load step's solution it holds), the pair returned by the latest  *)
(* solver.solve, the plotter, and the calls made so far: one record per    *)
(* solver.solve, one per print, one per plotter.write_frame.               *)
VARIABLES n, Tvalue, u_fn, num_its, converged, plotter, solves, printed, frames

(* PC3/assignment_3.ipynb: the values given to the symbols L, G and A_eff  *)
(* (EI is shared), and the expressions displacement and rotation, each the *)
(* pair of its coefficients in F and M.                                    *)
VARIABLES len, G, A_eff, displacement, rotation

elemVars == <<coord1, coord2, EA, theta, prev>>
loopVars == <<n, Tvalue, u_fn, num_its, converged, plotter, solves, printed, frames>>
pc3Vars == <<len, G, A_eff, displacement, rotation>>
vars == <<elemVars, EI, pc, K, loopVars, pc3Vars>>

(* Bounds of the explored inputs: the first node in the unit square, the   *)
(* second node with coordinates in 0..MaxCoord, stiffnesses in             *)
(* -1..MaxStiff.                                                           *)
MaxCoord == 2
MaxStiff == 2

(***************************************************************************)
(* Numbers                                                                 *)
(***************************************************************************)
Abs(i) == IF i < 0 THEN -i ELSE i

RECURSIVE GCD(_, _)
GCD(a, b) == IF b = 0 THEN a ELSE GCD(b, a % b)

NaN == [k |-> "nan", n |-> 0, r |-> 0, d |-> 1, q |-> 1]
PInf == [k |-> "pinf", n |-> 0, r |-> 0, d |-> 1, q |-> 1]
NInf == [k |-> "ninf", n |-> 0, r |-> 0, d |-> 1, q |-> 1]

(* The canonical record of (n + r*sqrt(q)) / d, d # 0.                     *)
Fin(n0, r0, d0, q0) ==
    LET n1 == IF q0 = 1 THEN n0 + r0 ELSE n0
        r1 == IF q0 = 1 THEN 0 ELSE r0
        sg == IF d0 < 0 THEN -1 ELSE 1
        g  == GCD(GCD(Abs(n1), Abs(r1)), Abs(d0))
    IN  [k |-> "fin", n |-> (sg * n1) \div g, r |-> (sg * r1) \div g,
         d |-> Abs(d0) \div g, q |-> IF r1 = 0 THEN 1 ELSE q0]

Zero == [k |-> "fin", n |-> 0, r |-> 0, d |-> 1, q |-> 1]
Rat(i) == IF i = 0 THEN Zero ELSE [k |-> "fin", n |-> i, r |-> 0, d |-> 1, q |-> 1]

IsFin(a) == a.k = "fin"
IsZero(a) == a = Zero
Qof(a, b) == IF a.q # 1 THEN a.q ELSE b.q

(* Sign of a number: -1, 0 or 1.                                           *)
Sign(a) ==
    IF a.k = "pinf" THEN 1
    ELSE IF a.k = "ninf" THEN -1
    ELSE IF a.r = 0 THEN (IF a.n > 0 THEN 1 ELSE IF a.n < 0 THEN -1 ELSE 0)
    ELSE IF a.n = 0 THEN (IF a.r > 0 THEN 1 ELSE -1)
    ELSE IF a.n > 0 /\ a.r > 0 THEN 1
    ELSE IF a.n < 0 /\ a.r < 0 THEN -1
    ELSE IF a.n > 0 THEN (IF a.n * a.n > a.r * a.r * a.q THEN 1 ELSE -1)
    ELSE (IF a.r * a.r * a.q > a.n * a.n THEN 1 ELSE -1)

(* Unary minus.                                                            *)
NegN(a) ==
    IF a.k = "nan" THEN NaN
    ELSE IF a.k = "pinf" THEN NInf
    ELSE IF a.k = "ninf" THEN PInf
    ELSE [a EXCEPT !.n = -a.n, !.r = -a.r]

(* a + b                                                                   *)
AddN(a, b) ==
    IF a.k = "nan" \/ b.k = "nan" THEN NaN
    ELSE IF ~IsFin(a) /\ ~IsFin(b) THEN (IF a.k = b.k THEN a ELSE NaN)
    ELSE IF ~IsFin(a) THEN a
    ELSE IF ~IsFin(b) THEN b
    ELSE IF a = Zero THEN b
    ELSE IF b = Zero THEN a
    ELSE Fin(a.n * b.d + b.n * a.d, a.r * b.d + b.r * a.d, a.d * b.d, Qof(a, b))

(* a - b                                                                   *)
SubN(a, b) == AddN(a, NegN(b))

(* a * b                                                                   *)
MulN(a, b) ==
    IF a.k = "nan" \/ b.k = "nan" THEN NaN
    ELSE IF ~IsFin(a) \/ ~IsFin(b)
         THEN (IF Sign(a) * Sign(b) = 0 THEN NaN
               ELSE IF Sign(a) * Sign(b) > 0 THEN PInf ELSE NInf)
    ELSE IF a = Zero \/ b = Zero THEN Zero
    ELSE LET q == Qof(a, b)
         IN  Fin(a.n * b.n + a.r * b.r * q, a.n * b.r + a.r * b.n, a.d * b.d, q)

(* a / b, numpy true division: x/0 is nan, inf or -inf, never an error.    *)
DivN(a, b) ==
    IF a.k = "nan" \/ b.k = "nan" THEN NaN
    ELSE IF ~IsFin(a) /\ ~IsFin(b) THEN NaN
    ELSE IF ~IsFin(b) THEN Zero
    ELSE IF IsZero(b)
         THEN (IF Sign(a) = 0 THEN NaN ELSE IF Sign(a) > 0 THEN PInf ELSE NInf)
    ELSE IF ~IsFin(a)
         THEN (IF Sign(a) * Sign(b) > 0 THEN PInf ELSE NInf)
    ELSE MulN(a, Fin(b.d * b.n, -(b.d * b.r), b.n * b.n - b.r * b.r * b.q, b.q))

(* a ** e for a literal exponent e >= 1                                    *)
RECURSIVE PowN(_, _)
PowN(a, e) == IF e = 1 THEN a ELSE MulN(a, PowN(a, e - 1))

(* numpy ==  on scalars: nan compares unequal to everything.               *)
NumEq(a, b) == a.k # "nan" /\ b.k # "nan" /\ a = b

(* The largest s with s*s dividing m (m >= 1).                             *)
SquarePart(m) ==
    CHOOSE s \in 1..m : /\ m % (s * s) = 0
                        /\ \A t \in (s + 1)..m : m % (t * t) # 0

(* sqrt of a natural number                                                *)
SqrtN(m) == IF m = 0 THEN Rat(0)
            ELSE LET s == SquarePart(m) IN Fin(0, s, 1, m \div (s * s))

(***************************************************************************)
(* numpy helpers                                                           *)
(***************************************************************************)
(* np.linalg.norm(coord2 - coord1) of two integer 2-vectors                *)
norm(p2, p1) ==
    LET v == <<p2[1] - p1[1], p2[2] - p1[2]>>
    IN  SqrtN(v[1] * v[1] + v[2] * v[2])

(* An angle is halfPi * (pi/2) + arctan(t); k = "nan" is the float nan.    *)
Angle(h, t) == [k |-> "fin", halfPi |-> h, t |-> t]
NaNAngle == [k |-> "nan", halfPi |-> 0, t |-> Rat(0)]
NoAngle == [k |-> "none", halfPi |-> 0, t |-> Rat(0)]

(* np.arctan2(y, x); both call sites pass finite numbers or nan.           *)
arctan2(y, x) ==
    IF ~IsFin(y) \/ ~IsFin(x) THEN NaNAngle
    ELSE IF Sign(x) > 0 THEN Angle(0, DivN(y, x))
    ELSE IF Sign(x) < 0 /\ Sign(y) >= 0 THEN Angle(2, DivN(y, x))
    ELSE IF Sign(x) < 0 THEN Angle(-2, DivN(y, x))
    ELSE IF Sign(y) > 0 THEN Angle(1, Rat(0))
    ELSE IF Sign(y) < 0 THEN Angle(-1, Rat(0))
    ELSE Angle(0, Rat(0))

(* scalar * matrix                                                         *)
Scale(a, M) == [i \in DOMAIN M |-> [j \in DOMAIN M[i] |-> MulN(a, M[i][j])]]

(***************************************************************************)
(* Faulty variants of truss_2d_element, used to test the properties below. *)
(*   "noL"   forgets the division of EA by L                               *)
(*   "asym"  writes -c*s for c*s in row 0, column 1                        *)
(*   "abs"   takes c from x2 instead of x2 - x1                            *)
(*   "sq"    scales by EA*EA                                               *)
(*   "aniso" writes c*s for s**2 on the diagonal                           *)
(*   "swap"  calls arctan2(c, s)                                           *)
(*   "guard" returns a zero matrix and a zero angle when L = 0             *)
(***************************************************************************)
TrussVariant(c1, c2, ea, fault) ==
    LET L  == norm(c2, c1)
        x1 == IF fault = "abs" THEN 0 ELSE c1[1]
        y1 == c1[2]
        x2 == c2[1]
        y2 == c2[2]
        c  == DivN(Rat(x2 - x1), L)
        s  == DivN(Rat(y2 - y1), L)
        th == IF fault = "swap" THEN arctan2(c, s)
              ELSE IF fault = "guard" /\ L = Zero THEN Angle(0, Zero)
              ELSE arctan2(s, c)
        cc == PowN(c, 2)
        cs == MulN(c, s)
        ss == IF fault = "aniso" THEN cs ELSE PowN(s, 2)
        ncs == MulN(NegN(c), s)
        k  == IF fault = "noL" THEN Rat(ea)
              ELSE IF fault = "sq" THEN DivN(Rat(ea * ea), L)
              ELSE DivN(Rat(ea), L)
        A  == << <<cc, IF fault = "asym" THEN ncs ELSE cs, NegN(cc), ncs>>,
                 <<cs,       ss,       ncs,      NegN(ss)>>,
                 <<NegN(cc), ncs,      cc,       cs      >>,
                 <<ncs,      NegN(ss), cs,       ss      >> >>
    IN  [K |-> IF fault = "guard" /\ L = Zero
               THEN [i \in 1..4 |-> [j \in 1..4 |-> Zero]]
               ELSE Scale(k, A),
         theta |-> th]

truss_2d_element_swap(c1, c2, ea) == TrussVariant(c1, c2, ea, "swap")
truss_2d_element_guard(c1, c2, ea) == TrussVariant(c1, c2, ea, "guard")
truss_2d_element_noL(c1, c2, ea) == TrussVariant(c1, c2, ea, "noL")
truss_2d_element_asym(c1, c2, ea) == TrussVariant(c1, c2, ea, "asym")
truss_2d_element_abs(c1, c2, ea) == TrussVariant(c1, c2, ea, "abs")
truss_2d_element_sq(c1, c2, ea) == TrussVariant(c1, c2, ea, "sq")
truss_2d_element_aniso(c1, c2, ea) == TrussVariant(c1, c2, ea, "aniso")

(***************************************************************************)
(* truss_2d_element                                                        *)
(***************************************************************************)
truss_2d_element(c1, c2, ea) ==
    LET L  == norm(c2, c1)
        x1 == c1[1]
        y1 == c1[2]
        x2 == c2[1]
        y2 == c2[2]
        c  == DivN(Rat(x2 - x1), L)
        s  == DivN(Rat(y2 - y1), L)
        th == arctan2(s, c)
        cc == PowN(c, 2)
        ss == PowN(s, 2)
        cs == MulN(c, s)
        ncs == MulN(NegN(c), s)
        A  == << <<cc,       cs,       NegN(cc), ncs     >>,
                 <<cs,       ss,       ncs,      NegN(ss)>>,
                 <<NegN(cc), ncs,      cc,       cs      >>,
                 <<ncs,      NegN(ss), cs,       ss      >> >>
    IN  [K |-> Scale(DivN(Rat(ea), L), A), theta |-> th]

(***************************************************************************)
(* beam_2d_element                                                         *)
(***************************************************************************)
(* M.T                                                                     *)
Transpose(M) == [i \in DOMAIN M[1] |-> [j \in DOMAIN M |-> M[j][i]]]

(* sum of f[1..m], accumulated left to right from f[1]                     *)
RECURSIVE SumN(_, _)
SumN(f, m) == IF m = 1 THEN f[1] ELSE AddN(SumN(f, m - 1), f[m])

(* A @ B                                                                   *)
MatMul(A, B) ==
    [i \in DOMAIN A |->
        [j \in DOMAIN B[1] |->
            SumN([l \in DOMAIN B |-> MulN(A[i][l], B[l][j])], Len(B))]]

(***************************************************************************)
(* Faulty variants of the beam's matrices, used to test the properties.    *)
(*   K_local "b4"    writes 4*EI/L for 2*EI/L in row 2, column 5           *)
(*   K_local "noEI"  forgets EI in 4*EI/L                                  *)
(*   K_local "sign"  writes 6*EI/L**2 for -6*EI/L**2 in row 2, column 4    *)
(*   T "flip"        rotates the second node the other way                 *)
(*   T "nosign"      writes s for -s in the rows of the transverse unknowns *)
(***************************************************************************)
KLocalVariant(ea, ei, L, fault) ==
    LET Z   == Rat(0)
        a   == DivN(Rat(ea), L)
        na  == DivN(NegN(Rat(ea)), L)
        b12 == DivN(MulN(Rat(12), Rat(ei)), PowN(L, 3))
        n12 == DivN(MulN(Rat(-12), Rat(ei)), PowN(L, 3))
        b6  == DivN(MulN(Rat(6), Rat(ei)), PowN(L, 2))
        n6  == DivN(MulN(Rat(-6), Rat(ei)), PowN(L, 2))
        b4  == IF fault = "noEI" THEN DivN(Rat(4), L)
               ELSE DivN(MulN(Rat(4), Rat(ei)), L)
        b2  == DivN(MulN(Rat(2), Rat(ei)), L)
    IN  << <<a,  Z,   Z,  na, Z,   Z >>,
           <<Z,  b12, b6, Z,  n12, b6>>,
           <<Z,  b6,  b4, Z,  IF fault = "sign" THEN b6 ELSE n6,
                                   IF fault = "b4" THEN b4 ELSE b2>>,
           <<na, Z,   Z,  a,  Z,   Z >>,
           <<Z,  n12, n6, Z,  b12, n6>>,
           <<Z,  b6,  b2, Z,  n6,  b4>> >>

K_local_b4(ea, ei, L) == KLocalVariant(ea, ei, L, "b4")
K_local_noEI(ea, ei, L) == KLocalVariant(ea, ei, L, "noEI")
K_local_sign(ea, ei, L) == KLocalVariant(ea, ei, L, "sign")

T_gl_to_loc_flip(c, s) ==
    LET Z == Rat(0)
        I == Rat(1)
    IN  << <<c,       s, Z, Z,       Z,       Z>>,
           <<NegN(s), c, Z, Z,       Z,       Z>>,
           <<Z,       Z, I, Z,       Z,       Z>>,
           <<Z,       Z, Z, c,       NegN(s), Z>>,
           <<Z,       Z, Z, s,       c,       Z>>,
           <<Z,       Z, Z, Z,       Z,       I>> >>

T_gl_to_loc_nosign(c, s) ==
    LET Z == Rat(0)
        I == Rat(1)
    IN  << <<c, s, Z, Z, Z, Z>>,
           <<s, c, Z, Z, Z, Z>>,
           <<Z, Z, I, Z, Z, Z>>,
           <<Z, Z, Z, c, s, Z>>,
           <<Z, Z, Z, s, c, Z>>,
           <<Z, Z, Z, Z, Z, I>> >>

(* The local stiffness matrix of the beam, as the list literal writes it.  *)
(* The two negative literals are stored in the compiled file as 32-bit     *)
(* integers whose bytes are not readable there (all four >= 0x80, hence    *)
(* small negative numbers); they are read as -12 and -6, the values at the *)
(* same places of the matrix printed in PC3/assignment_3.ipynb.            *)
K_local(ea, ei, L) ==
    LET Z   == Rat(0)
        a   == DivN(Rat(ea), L)
        na  == DivN(NegN(Rat(ea)), L)
        b12 == DivN(MulN(Rat(12), Rat(ei)), PowN(L, 3))
        n12 == DivN(MulN(Rat(-12), Rat(ei)), PowN(L, 3))
        b6  == DivN(MulN(Rat(6), Rat(ei)), PowN(L, 2))
        n6  == DivN(MulN(Rat(-6), Rat(ei)), PowN(L, 2))
        b4  == DivN(MulN(Rat(4), Rat(ei)), L)
        b2  == DivN(MulN(Rat(2), Rat(ei)), L)
    IN  << <<a,  Z,   Z,  na, Z,   Z >>,
           <<Z,  b12, b6, Z,  n12, b6>>,
           <<Z,  b6,  b4, Z,  n6,  b2>>,
           <<na, Z,   Z,  a,  Z,   Z >>,
           <<Z,  n12, n6, Z,  b12, n6>>,
           <<Z,  b6,  b2, Z,  n6,  b4>> >>

(* The global-to-local transformation of the nodal unknowns.               *)
T_gl_to_loc(c, s) ==
    LET Z == Rat(0)
        I == Rat(1)
    IN  << <<c,       s, Z, Z,       Z, Z>>,
           <<NegN(s), c, Z, Z,       Z, Z>>,
           <<Z,       Z, I, Z,       Z, Z>>,
           <<Z,       Z, Z, c,       s, Z>>,
           <<Z,       Z, Z, NegN(s), c, Z>>,
           <<Z,       Z, Z, Z,       Z, I>> >>

(* Faulty variant: T @ K_local @ T, the transposition forgotten.           *)
beam_2d_element_noT(c1, c2, ea, ei) ==
    LET L  == norm(c2, c1)
        c  == DivN(Rat(c2[1] - c1[1]), L)
        s  == DivN(Rat(c2[2] - c1[2]), L)
        Z  == Rat(0)
        I  == Rat(1)
        T  == << <<c,       s, Z, Z,       Z, Z>>,
                 <<NegN(s), c, Z, Z,       Z, Z>>,
                 <<Z,       Z, I, Z,       Z, Z>>,
                 <<Z,       Z, Z, c,       s, Z>>,
                 <<Z,       Z, Z, NegN(s), c, Z>>,
                 <<Z,       Z, Z, Z,       Z, I>> >>
        a  == DivN(Rat(ea), L)
        b12 == DivN(Rat(12 * ei), PowN(L, 3))
        b6  == DivN(Rat(6 * ei), PowN(L, 2))
        b4  == DivN(Rat(4 * ei), L)
        b2  == DivN(Rat(2 * ei), L)
        Kl == << <<a,       Z,         Z,        NegN(a), Z,         Z       >>,
                 <<Z,       b12,       b6,       Z,       NegN(b12), b6      >>,
                 <<Z,       b6,        b4,       Z,       NegN(b6),  b2      >>,
                 <<NegN(a), Z,         Z,        a,       Z,         Z       >>,
                 <<Z,       NegN(b12), NegN(b6), Z,       b12,       NegN(b6)>>,
                 <<Z,       b6,        b2,       Z,       NegN(b6),  b4      >> >>
    IN  [K |-> MatMul(MatMul(T, Kl), T), theta |-> arctan2(s, c)]

(* Faulty variant: returns the 4x4 bending matrix alone, no axial DOFs.    *)
beam_2d_element_4x4(c1, c2, ea, ei) ==
    LET L == norm(c2, c1)
        c == DivN(Rat(c2[1] - c1[1]), L)
        s == DivN(Rat(c2[2] - c1[2]), L)
        b12 == DivN(Rat(12 * ei), PowN(L, 3))
        b6  == DivN(Rat(6 * ei), PowN(L, 2))
        b4  == DivN(Rat(4 * ei), L)
        b2  == DivN(Rat(2 * ei), L)
    IN  [K |-> << <<b12,       b6,       NegN(b12), b6      >>,
                  <<b6,        b4,       NegN(b6),  b2      >>,
                  <<NegN(b12), NegN(b6), b12,       NegN(b6)>>,
                  <<b6,        b2,       NegN(b6),  b4      >> >>,
         theta |-> arctan2(s, c)]

beam_2d_element(c1, c2, ea, ei) ==
    LET L  == norm(c2, c1)
        x1 == c1[1]
        y1 == c1[2]
        x2 == c2[1]
        y2 == c2[2]
        c  == DivN(Rat(x2 - x1), L)
        s  == DivN(Rat(y2 - y1), L)
        th == arctan2(s, c)
        Kl == K_local(ea, ei, L)
        T  == T_gl_to_loc(c, s)
    IN  [K |-> MatMul(MatMul(Transpose(T), Kl), T), theta |-> th]

(***************************************************************************)
(* PC3/assignment_3.ipynb: the Hermite derivation of the bending stiffness *)
(***************************************************************************)
(* B_vec: the curvature of the four Hermite shape functions, each a        *)
(* polynomial B_i(x) = B_i[1] + B_i[2] * x.                                *)
B_vec(L) ==
    << <<NegN(DivN(Rat(6), PowN(L, 2))), DivN(Rat(12), PowN(L, 3))>>,
       <<NegN(DivN(Rat(4), L)),          DivN(Rat(6), PowN(L, 2))>>,
       <<DivN(Rat(6), PowN(L, 2)),       NegN(DivN(Rat(12), PowN(L, 3)))>>,
       <<NegN(DivN(Rat(2), L)),          DivN(Rat(6), PowN(L, 2))>> >>

(* sp.integrate(B_i * B_j, (x, 0, L)) of two degree-1 polynomials          *)
IntegrateBB(p, r, L) ==
    AddN(AddN(MulN(MulN(p[1], r[1]), L),
              DivN(MulN(AddN(MulN(p[1], r[2]), MulN(p[2], r[1])), PowN(L, 2)),
                   Rat(2))),
         DivN(MulN(MulN(p[2], r[2]), PowN(L, 3)), Rat(3)))

(* K = EI * integrate(B^T B, (x, 0, L))                                    *)
K_EB(ei, L) ==
    LET B == B_vec(L)
    IN  [i \in 1..4 |-> [j \in 1..4 |->
            MulN(Rat(ei), IntegrateBB(B[i], B[j], L))]]

(***************************************************************************)
(* State machine: a caller holding inputs and the last returned pair       *)
(* (K, theta) bound by its latest call; pc names that call and prev the    *)
(* call before it, so that a state records in which order the two          *)
(* functions were called on the shared inputs.                             *)
(***************************************************************************)
Coords1 == (0..1) \X (0..1)
Coords2 == (0..MaxCoord) \X (0..MaxCoord)
Stiffs == (-1)..MaxStiff

(* The notebooks' variables while the notebooks are not run.               *)
LoopIdle ==
    /\ n = 0
    /\ Tvalue = <<Zero, Zero, Zero>>
    /\ u_fn = [step |-> 0, ok |-> TRUE]
    /\ num_its = 0
    /\ converged = TRUE
    /\ plotter = "open"
    /\ solves = <<>>
    /\ printed = <<>>
    /\ frames = <<>>

PC3Idle ==
    /\ len = 1
    /\ G = 1
    /\ A_eff = 1
    /\ displacement = <<>>
    /\ rotation = <<>>

Init ==
    /\ LoopIdle
    /\ PC3Idle
    /\ coord1 \in Coords1
    /\ coord2 \in Coords2
    /\ EA \in Stiffs
    /\ EI \in Stiffs
    /\ pc = "ready"
    /\ K = <<>>
    /\ theta = NoAngle
    /\ prev = "none"

(* A truss call that keeps the matrix of the caller's previous call.       *)
CallTruss_memo ==
    /\ LET res == truss_2d_element(coord1, coord2, EA)
       IN  /\ K' = (IF pc = "ready" THEN res.K ELSE K)
           /\ theta' = res.theta
    /\ pc' = "truss"
    /\ prev' = pc
    /\ UNCHANGED <<coord1, coord2, EA, EI, loopVars, pc3Vars>>

CallTruss ==
    /\ LET res == truss_2d_element(coord1, coord2, EA)
       IN  /\ K' = res.K
           /\ theta' = res.theta
    /\ pc' = "truss"
    /\ prev' = pc
    /\ UNCHANGED <<coord1, coord2, EA, EI, loopVars, pc3Vars>>

CallBeam ==
    /\ LET res == beam_2d_element(coord1, coord2, EA, EI)
       IN  /\ K' = res.K
           /\ theta' = res.theta
    /\ pc' = "beam"
    /\ prev' = pc
    /\ UNCHANGED <<coord1, coord2, EA, EI, loopVars, pc3Vars>>

Next == CallTruss \/ CallBeam

Spec == Init /\ [][Next]_vars

(***************************************************************************)
(* unnamed/part_000: the load-stepping loop of the hyperelasticity         *)
(* notebook.  solver.solve is a library call: it returns some iteration    *)
(* count and either outcome of convergence; u then holds the solution of   *)
(* the current load (ok) or the last iterate (not ok).                     *)
(***************************************************************************)
RangeStart == 1
RangeStop == 10
MaxIts == 3

tval0 == Fin(-3, 0, 2, 1)

(* State after the cells above the loop: T = (0, 0, 0), u the zero field,  *)
(* the plotter opened by plotter.open_gif, control at the for statement.   *)
LoadInit ==
    /\ LoopIdle
    /\ PC3Idle
    /\ pc = "for"
    /\ coord1 = <<0, 0>>
    /\ coord2 = <<0, 0>>
    /\ EA = 0
    /\ EI = 0
    /\ K = <<>>
    /\ theta = NoAngle
    /\ prev = "none"

(* Faulty variant: the load is written to the x component of T.value.      *)
ForNext_x ==
    /\ pc = "for"
    /\ n + 1 < RangeStop
    /\ n' = (IF n = 0 THEN RangeStart ELSE n + 1)
    /\ Tvalue' = [Tvalue EXCEPT ![1] = MulN(Rat(n'), tval0)]
    /\ pc' = "solve"
    /\ UNCHANGED <<u_fn, num_its, converged, plotter, solves, printed, frames>>
    /\ UNCHANGED <<elemVars, EI, K, pc3Vars>>

(* for n in range(1, 10): T.value[2] = n * tval0                           *)
ForNext ==
    /\ pc = "for"
    /\ n + 1 < RangeStop
    /\ n' = (IF n = 0 THEN RangeStart ELSE n + 1)
    /\ Tvalue' = [Tvalue EXCEPT ![3] = MulN(Rat(n'), tval0)]
    /\ pc' = "solve"
    /\ UNCHANGED <<u_fn, num_its, converged, plotter, solves, printed, frames>>
    /\ UNCHANGED <<elemVars, EI, K, pc3Vars>>

(* the range is exhausted: control leaves the loop                         *)
ForEnd ==
    /\ pc = "for"
    /\ ~(n + 1 < RangeStop)
    /\ pc' = "close"
    /\ UNCHANGED <<loopVars, elemVars, EI, K, pc3Vars>>

(* num_its, converged = solver.solve(u)                                    *)
Solve ==
    /\ pc = "solve"
    /\ \E its \in 1..MaxIts, ok \in BOOLEAN :
          /\ num_its' = its
          /\ converged' = ok
          /\ u_fn' = [step |-> n, ok |-> ok]
    /\ solves' = Append(solves, [n |-> n, T |-> Tvalue, guess |-> u_fn])
    /\ pc' = "assert"
    /\ UNCHANGED <<n, Tvalue, plotter, printed, frames>>
    /\ UNCHANGED <<elemVars, EI, K, pc3Vars>>

(* assert (converged): an AssertionError ends the cell                     *)
AssertConverged ==
    /\ pc = "assert"
    /\ pc' = (IF converged THEN "print" ELSE "failed")
    /\ UNCHANGED <<loopVars, elemVars, EI, K, pc3Vars>>

(* u.x.scatter_forward(); print(f"Time step {n}, ... Load {T.value}")      *)
PrintStep ==
    /\ pc = "print"
    /\ printed' = Append(printed, [n |-> n, T |-> Tvalue])
    /\ pc' = "frame"
    /\ UNCHANGED <<n, Tvalue, u_fn, num_its, converged, plotter, solves, frames>>
    /\ UNCHANGED <<elemVars, EI, K, pc3Vars>>

(* the grid and the warped mesh are updated from u, then                   *)
(* plotter.write_frame()                                                   *)
WriteFrame ==
    /\ pc = "frame"
    /\ frames' = Append(frames, [n |-> n, u |-> u_fn])
    /\ pc' = "for"
    /\ UNCHANGED <<n, Tvalue, u_fn, num_its, converged, plotter, solves, printed>>
    /\ UNCHANGED <<elemVars, EI, K, pc3Vars>>

(* plotter.close()                                                         *)
ClosePlotter ==
    /\ pc = "close"
    /\ plotter' = "closed"
    /\ pc' = "done"
    /\ UNCHANGED <<n, Tvalue, u_fn, num_its, converged, solves, printed, frames>>
    /\ UNCHANGED <<elemVars, EI, K, pc3Vars>>

LoadNext ==
    \/ ForNext
    \/ ForEnd
    \/ Solve
    \/ AssertConverged
    \/ PrintStep
    \/ WriteFrame
    \/ ClosePlotter

LoadSpec == LoadInit /\ [][LoadNext]_vars

(***************************************************************************)
(* PC3/assignment_3.ipynb: the cantilever compliances and stiffnesses.     *)
(* The sympy cells compute with the symbols L, EI, G, A_eff, F, M; here    *)
(* the first four carry numbers, and an expression linear in F and M is    *)
(* the pair <<coefficient of F, coefficient of M>>.  A quadratic form in   *)
(* F and M is the record [FF, FM, MM] of its coefficients, and a           *)
(* polynomial in x the tuple of the coefficients of 1, x, x**2.            *)
(***************************************************************************)
MaxLen == 3
MaxShear == 2

QForm(ff, fm, mm) == [FF |-> ff, FM |-> fm, MM |-> mm]
QAdd(a, b) == QForm(AddN(a.FF, b.FF), AddN(a.FM, b.FM), AddN(a.MM, b.MM))
QScale(c, a) == QForm(MulN(c, a.FF), MulN(c, a.FM), MulN(c, a.MM))

(* Faulty variant: the factor 2 of the cross term -2*(M + F*L)*F*x lost.   *)
energy_density_cross(ei, L) ==
    LET h == DivN(Rat(1), MulN(Rat(2), Rat(ei)))
    IN  << QScale(h, QForm(PowN(L, 2), MulN(Rat(2), L), Rat(1))),
           QScale(h, QForm(NegN(L), Rat(-1), Zero)),
           QScale(h, QForm(Rat(1), Zero, Zero)) >>

(* energy_density = (M + F * (L-x))**2/(2*EI), expanded in powers of x:    *)
(* (M + F*L)**2 - 2*(M + F*L)*F*x + F**2*x**2, over 2*EI                   *)
energy_density(ei, L) ==
    LET h == DivN(Rat(1), MulN(Rat(2), Rat(ei)))
    IN  << QScale(h, QForm(PowN(L, 2), MulN(Rat(2), L), Rat(1))),
           QScale(h, QForm(MulN(Rat(-2), L), Rat(-2), Zero)),
           QScale(h, QForm(Rat(1), Zero, Zero)) >>

(* energy_density = (M + F * (L-x))**2/(2*EI) + F**2/(2*A_eff*G)           *)
energy_density_shear(ei, g, a, L) ==
    LET d == energy_density(ei, L)
        sh == QForm(DivN(Rat(1), MulN(MulN(Rat(2), Rat(a)), Rat(g))), Zero, Zero)
    IN  <<QAdd(d[1], sh), d[2], d[3]>>

(* sp.integrate(energy_density, (x, 0, L))                                 *)
integrate(d, L) ==
    QAdd(QAdd(QScale(L, d[1]), QScale(DivN(PowN(L, 2), Rat(2)), d[2])),
         QScale(DivN(PowN(L, 3), Rat(3)), d[3]))

(* sp.diff(energy, F) and sp.diff(energy, M)                               *)
diff_F(e) == <<MulN(Rat(2), e.FF), e.FM>>
diff_M(e) == <<e.FM, MulN(Rat(2), e.MM)>>

(* The compliance matrix S_EB of the text.                                 *)
S_EB(ei, L) ==
    << <<DivN(PowN(L, 3), MulN(Rat(3), Rat(ei))), DivN(PowN(L, 2), MulN(Rat(2), Rat(ei)))>>,
       <<DivN(PowN(L, 2), MulN(Rat(2), Rat(ei))), DivN(L, Rat(ei))>> >>

(* Faulty variant: +6L for -6L off the diagonal.                           *)
K_EB_2x2_plus(ei, L) ==
    Scale(DivN(Rat(ei), PowN(L, 3)),
          << <<Rat(12),           MulN(Rat(6), L)>>,
             <<MulN(Rat(6), L),   MulN(Rat(4), PowN(L, 2))>> >>)

(* The cantilever stiffness K_EB = S_EB^-1 of the text (2x2; the name      *)
(* K_EB is the 4x4 matrix of the free element above).                      *)
K_EB_2x2(ei, L) ==
    Scale(DivN(Rat(ei), PowN(L, 3)),
          << <<Rat(12),           MulN(Rat(-6), L)>>,
             <<MulN(Rat(-6), L),  MulN(Rat(4), PowN(L, 2))>> >>)

(* Psi := 12 EI / (G A_eff L^2)                                            *)
Psi(ei, g, a, L) ==
    DivN(MulN(Rat(12), Rat(ei)), MulN(MulN(Rat(g), Rat(a)), PowN(L, 2)))

(* The Timoshenko compliance S_T of the text.                              *)
S_T(ei, L, psi) ==
    Scale(DivN(Rat(1), Rat(ei)),
          << <<MulN(DivN(PowN(L, 3), Rat(3)), AddN(Rat(1), DivN(psi, Rat(4)))),
               DivN(PowN(L, 2), Rat(2))>>,
             <<DivN(PowN(L, 2), Rat(2)), L>> >>)

(* Faulty variant: 4 L^2 for (4 + Psi) L^2.                                *)
K_T_2x2_noPsi(ei, L, psi) ==
    Scale(DivN(Rat(ei), MulN(PowN(L, 3), AddN(Rat(1), psi))),
          << <<Rat(12),           MulN(Rat(-6), L)>>,
             <<MulN(Rat(-6), L),  MulN(Rat(4), PowN(L, 2))>> >>)

(* The Timoshenko cantilever stiffness K_T = S_T^-1 of the text.           *)
K_T_2x2(ei, L, psi) ==
    Scale(DivN(Rat(ei), MulN(PowN(L, 3), AddN(Rat(1), psi))),
          << <<Rat(12),           MulN(Rat(-6), L)>>,
             <<MulN(Rat(-6), L),  MulN(AddN(Rat(4), psi), PowN(L, 2))>> >>)

(* The symbols take their values once; the cells then run in any order.    *)
PC3Init ==
    /\ LoopIdle
    /\ len \in 1..MaxLen
    /\ EI \in 1..MaxStiff
    /\ G \in 1..MaxShear
    /\ A_eff \in 1..MaxShear
    /\ displacement = <<>>
    /\ rotation = <<>>
    /\ K = <<>>
    /\ pc = "notebook"
    /\ coord1 = <<0, 0>>
    /\ coord2 = <<0, 0>>
    /\ EA = 0
    /\ theta = NoAngle
    /\ prev = "none"

(* The cell that checks S_EB: Castigliano's theorem on the bending energy. *)
RunCastigliano ==
    /\ LET energy == integrate(energy_density(EI, Rat(len)), Rat(len))
       IN  /\ displacement' = diff_F(energy)
           /\ rotation' = diff_M(energy)
    /\ pc' = "castigliano"
    /\ UNCHANGED <<len, G, A_eff, EI, K, elemVars, loopVars>>

(* The cell that checks S_T: the same with the shear energy added.         *)
RunCastiglianoShear ==
    /\ LET energy == integrate(energy_density_shear(EI, G, A_eff, Rat(len)), Rat(len))
       IN  /\ displacement' = diff_F(energy)
           /\ rotation' = diff_M(energy)
    /\ pc' = "castigliano_shear"
    /\ UNCHANGED <<len, G, A_eff, EI, K, elemVars, loopVars>>

(* The cell that integrates EI * B^T B into the 4x4 matrix K.              *)
RunHermite ==
    /\ K' = K_EB(EI, Rat(len))
    /\ pc' = "hermite"
    /\ UNCHANGED <<len, G, A_eff, EI, displacement, rotation, elemVars, loopVars>>

PC3Next == RunCastigliano \/ RunCastiglianoShear \/ RunHermite

PC3Spec == PC3Init /\ [][PC3Next]_vars

(***************************************************************************)
(* Properties                                                              *)
(***************************************************************************)
Distinct == coord1 # coord2
ElemL == norm(coord2, coord1)
ElemC == DivN(Rat(coord2[1] - coord1[1]), ElemL)
ElemS == DivN(Rat(coord2[2] - coord1[2]), ElemL)
Oblique == coord2[1] # coord1[1] /\ coord2[2] # coord1[2]

(* numpy == on two matrices, all entries equal                             *)
MatEq(A, B) ==
    /\ DOMAIN A = DOMAIN B
    /\ \A i \in DOMAIN A :
          /\ DOMAIN A[i] = DOMAIN B[i]
          /\ \A j \in DOMAIN A[i] : NumEq(A[i][j], B[i][j])

IsSymmetric(M) == \A i \in DOMAIN M : \A j \in DOMAIN M : NumEq(M[i][j], M[j][i])

(* The sub-matrix of M on the rows and columns listed in idx.              *)
SubMatrix(M, idx) ==
    [i \in DOMAIN idx |-> [j \in DOMAIN idx |-> M[idx[i]][idx[j]]]]

IntMatrix(M) == [i \in DOMAIN M |-> [j \in DOMAIN M[i] |-> Rat(M[i][j])]]

(* C1: for distinct endpoints the truss matrix is (EA/L) * d d^t with      *)
(* d = [c, s, -c, -s], c = (x2-x1)/L, s = (y2-y1)/L.                       *)
C1_TrussOuterProduct ==
    (pc = "truss" /\ Distinct) =>
        LET d == <<ElemC, ElemS, NegN(ElemC), NegN(ElemS)>>
        IN  \A i \in 1..4 : \A j \in 1..4 :
                NumEq(K[i][j], MulN(DivN(Rat(EA), ElemL), MulN(d[i], d[j])))

C1_Witness ==
    /\ pc = "truss" /\ Oblique /\ EA = 2
    /\ coord2[1] - coord1[1] # coord2[2] - coord1[2]
    /\ Sign(K[1][2]) # 0

(* C2: for distinct endpoints the beam matrix is T^t K_local T, T the      *)
(* block-diagonal matrix of two blocks [[c, s, 0], [-s, c, 0], [0, 0, 1]]. *)
C2_Block == << <<ElemC, ElemS, Rat(0)>>,
               <<NegN(ElemS), ElemC, Rat(0)>>,
               <<Rat(0), Rat(0), Rat(1)>> >>

C2_T == [i \in 1..6 |-> [j \in 1..6 |->
            IF (i - 1) \div 3 = (j - 1) \div 3
            THEN C2_Block[((i - 1) % 3) + 1][((j - 1) % 3) + 1]
            ELSE Rat(0)]]

C2_BeamCongruence ==
    (pc = "beam" /\ Distinct) =>
        /\ MatEq(K, MatMul(MatMul(Transpose(C2_T), K_local(EA, EI, ElemL)), C2_T))
        /\ MatEq(T_gl_to_loc(ElemC, ElemS), C2_T)

C2_Witness ==
    /\ pc = "beam" /\ Oblique /\ EA # 0 /\ EI # 0 /\ EA # EI
    /\ Sign(K[1][2]) # 0

(* C3: K_local has the axial block (EA/L)[[1,-1],[-1,1]] on DOFs {0,3},    *)
(* the Euler-Bernoulli block on DOFs {1,2,4,5}, zero coupling between the  *)
(* two; the beam on (0,0)-(1,0) with EA = 0, EI = 1 returns the block      *)
(* [[12,6,-12,6],[6,4,-6,2],[-12,-6,12,-6],[6,2,-6,4]]; the block equals   *)
(* EI times the integral of B^t B of the notebook.                         *)
BendingDofs == <<2, 3, 5, 6>>
AxialDofs == <<1, 4>>

C3_Bending(ei, L) ==
    LET e12 == DivN(Rat(12 * ei), PowN(L, 3))
        e6  == DivN(Rat(6 * ei), PowN(L, 2))
        e4  == DivN(Rat(4 * ei), L)
        e2  == DivN(Rat(2 * ei), L)
    IN  << <<e12,       e6,       NegN(e12), e6      >>,
           <<e6,        e4,       NegN(e6),  e2      >>,
           <<NegN(e12), NegN(e6), e12,       NegN(e6)>>,
           <<e6,        e2,       NegN(e6),  e4      >> >>

C3_LocalStiffness ==
    (pc = "beam" /\ Distinct) =>
        LET Kl == K_local(EA, EI, ElemL)
            a  == DivN(Rat(EA), ElemL)
        IN  /\ MatEq(SubMatrix(Kl, AxialDofs), <<<<a, NegN(a)>>, <<NegN(a), a>>>>)
            /\ MatEq(SubMatrix(Kl, BendingDofs), C3_Bending(EI, ElemL))
            /\ \A i \in {1, 4} : \A j \in {2, 3, 5, 6} :
                  Kl[i][j] = Zero /\ Kl[j][i] = Zero
            /\ MatEq(SubMatrix(Kl, BendingDofs), K_EB(EI, ElemL))
            /\ (coord2[2] = coord1[2] /\ coord2[1] > coord1[1]) => MatEq(K, Kl)
            /\ (coord1 = <<0, 0>> /\ coord2 = <<1, 0>> /\ EA = 0 /\ EI = 1) =>
                  MatEq(SubMatrix(K, BendingDofs),
                        IntMatrix(<< <<12, 6, -12, 6>>, <<6, 4, -6, 2>>,
                                     <<-12, -6, 12, -6>>, <<6, 2, -6, 4>> >>))

C3_Witness ==
    /\ pc = "beam" /\ coord1 = <<0, 0>> /\ coord2 = <<1, 0>> /\ EA = 0 /\ EI = 1
    /\ K[3][6] = Rat(2)

(* C4: for distinct endpoints the truss matrix is symmetric.               *)
C4_TrussSymmetric == (pc = "truss" /\ Distinct) => IsSymmetric(K)

C4_Witness == pc = "truss" /\ Oblique /\ EA # 0 /\ Sign(K[1][2]) # 0

(* C5: for distinct endpoints, any EA, EI and orientation, the beam        *)
(* matrix is symmetric.                                                    *)
C5_BeamSymmetric == (pc = "beam" /\ Distinct) => IsSymmetric(K)

C5_Witness ==
    /\ pc = "beam" /\ Oblique /\ EA # 0 /\ EI # 0
    /\ Sign(K[1][3]) # 0 /\ Sign(K[2][4]) # 0

(* C6: translating both endpoints by the same offset leaves the truss and  *)
(* the beam matrix unchanged; K depends on the coordinates only through    *)
(* coord2 - coord1.                                                        *)
Shift(p, off) == <<p[1] + off[1], p[2] + off[2]>>
Offsets == {<<1, 0>>, <<-2, 3>>, <<-coord1[1], -coord1[2]>>}

C6_TranslationInvariant ==
    /\ (pc = "truss" /\ Distinct) =>
          \A off \in Offsets :
              MatEq(truss_2d_element(Shift(coord1, off), Shift(coord2, off), EA).K, K)
    /\ (pc = "beam" /\ Distinct) =>
          \A off \in Offsets :
              MatEq(beam_2d_element(Shift(coord1, off), Shift(coord2, off), EA, EI).K, K)

C6_Witness ==
    /\ pc = "beam" /\ Oblique /\ coord1 = <<1, 1>> /\ EA # 0 /\ EI # 0
    /\ Sign(K[1][1]) # 0

(* C7: for distinct endpoints, doubling EA doubles every entry of the      *)
(* truss matrix and leaves the returned angle unchanged.                   *)
C7_TrussScaling ==
    (pc = "truss" /\ Distinct) =>
        LET res2 == truss_2d_element(coord1, coord2, 2 * EA)
        IN  /\ MatEq(res2.K, Scale(Rat(2), K))
            /\ res2.theta = theta

C7_Witness == pc = "truss" /\ Distinct /\ EA # 0 /\ Sign(K[1][1]) # 0

(* C8 as stated: for distinct endpoints and fixed EA, doubling EI doubles  *)
(* every entry of the beam matrix.                                         *)
C8_BeamScalingEIAlone ==
    (pc = "beam" /\ Distinct) =>
        MatEq(beam_2d_element(coord1, coord2, EA, 2 * EI).K, Scale(Rat(2), K))

(* C8 amended: for distinct endpoints, doubling EI doubles every entry of  *)
(* the beam matrix when EA = 0, and doubling EA and EI together doubles    *)
(* it for every EA.                                                        *)
C8_BeamScaling ==
    (pc = "beam" /\ Distinct) =>
        /\ (EA = 0) =>
              MatEq(beam_2d_element(coord1, coord2, EA, 2 * EI).K, Scale(Rat(2), K))
        /\ MatEq(beam_2d_element(coord1, coord2, 2 * EA, 2 * EI).K, Scale(Rat(2), K))

C8_Witness ==
    /\ pc = "beam" /\ Oblique /\ EA = 0 /\ EI # 0
    /\ Sign(K[1][1]) # 0 /\ Sign(K[3][3]) # 0

(* C9: rotating both endpoints of a truss by a multiple of 90 degrees      *)
(* about the origin leaves the non-zero eigenvalue of K, its trace         *)
(* 2*EA/L, unchanged.                                                      *)
Rot90(p) == <<-p[2], p[1]>>
Trace(M) == SumN([i \in DOMAIN M |-> M[i][i]], Len(M))

C9_RotationInvariantTrace ==
    (pc = "truss" /\ Distinct) =>
        /\ NumEq(Trace(K), DivN(Rat(2 * EA), ElemL))
        /\ \A p \in {<<Rot90(coord1), Rot90(coord2)>>,
                     <<Rot90(Rot90(coord1)), Rot90(Rot90(coord2))>>,
                     <<Rot90(Rot90(Rot90(coord1))), Rot90(Rot90(Rot90(coord2)))>>} :
              NumEq(Trace(truss_2d_element(p[1], p[2], EA).K), Trace(K))

C9_Witness ==
    /\ pc = "truss" /\ Oblique /\ coord1 # <<0, 0>> /\ EA # 0
    /\ Sign(Trace(K)) # 0

(* C10: for distinct endpoints every rigid-body displacement is in the     *)
(* null space of the beam matrix: K d = 0 for the translation              *)
(* d = [a, b, 0, a, b, 0] and for the rotation w about (x0, y0),           *)
(* d = [-w(y1-y0), w(x1-x0), w, -w(y2-y0), w(x2-x0), w].                   *)
MatVec(M, v) ==
    [i \in DOMAIN M |-> SumN([l \in DOMAIN v |-> MulN(M[i][l], Rat(v[l]))], Len(v))]

IsZeroVector(v) == \A i \in DOMAIN v : v[i] = Zero

RigidTranslation(a, b) == <<a, b, 0, a, b, 0>>

RigidRotation(w, p0) ==
    <<-(w * (coord1[2] - p0[2])), w * (coord1[1] - p0[1]), w,
      -(w * (coord2[2] - p0[2])), w * (coord2[1] - p0[1]), w>>

C10_RigidBodyNullSpace ==
    (pc = "beam" /\ Distinct) =>
        /\ \A a \in -1..1 : \A b \in -1..1 :
              IsZeroVector(MatVec(K, RigidTranslation(a, b)))
        /\ \A w \in {-1, 2} : \A p0 \in {<<0, 0>>, <<1, -2>>, coord1} :
              IsZeroVector(MatVec(K, RigidRotation(w, p0)))

C10_Witness ==
    /\ pc = "beam" /\ Oblique /\ EA # 0 /\ EI # 0
    /\ ~IsZeroVector(MatVec(K, <<0, 0, 1, 0, 0, 1>>))

(* C11: for distinct endpoints and EA # 0 the truss matrix has rank        *)
(* exactly 1: it is not the zero matrix and every 2x2 minor                *)
(* K[i][j]*K[k][l] - K[i][l]*K[k][j] is zero.                              *)
Minor2(M, i, k, j, l) == SubN(MulN(M[i][j], M[k][l]), MulN(M[i][l], M[k][j]))

C11_TrussRankOne ==
    (pc = "truss" /\ Distinct /\ EA # 0) =>
        /\ \E i \in 1..4 : \E j \in 1..4 : IsFin(K[i][j]) /\ K[i][j] # Zero
        /\ \A i \in 1..4 : \A k \in 1..4 : \A j \in 1..4 : \A l \in 1..4 :
              Minor2(K, i, k, j, l) = Zero

C11_Witness ==
    /\ pc = "truss" /\ Oblique /\ EA # 0
    /\ Sign(K[1][2]) # 0 /\ Sign(K[2][2]) # 0

(* C12: for distinct endpoints the beam matrix is singular with rank at    *)
(* most 4: the two rigid translations and the rigid rotation about the     *)
(* origin are null vectors, and the three are linearly independent.        *)
Det3(a, b, c) ==
      a[1] * (b[2] * c[3] - b[3] * c[2])
    - a[2] * (b[1] * c[3] - b[3] * c[1])
    + a[3] * (b[1] * c[2] - b[2] * c[1])

C12_NullVectors ==
    <<RigidTranslation(1, 0), RigidTranslation(0, 1), RigidRotation(1, <<0, 0>>)>>

C12_BeamSingular ==
    (pc = "beam" /\ Distinct) =>
        /\ \A nv \in 1..3 : IsZeroVector(MatVec(K, C12_NullVectors[nv]))
        /\ Det3(C12_NullVectors[1], C12_NullVectors[2], C12_NullVectors[3]) # 0
        /\ Len(K) - 3 <= 4

C12_Witness ==
    /\ pc = "beam" /\ Oblique /\ EA # 0 /\ EI # 0 /\ coord1 # <<0, 0>>
    /\ Sign(K[3][3]) # 0 /\ Sign(K[1][5]) # 0

(* C13: a truss along +x of length L has K[0][0] = K[2][2] = EA/L,         *)
(* K[0][2] = K[2][0] = -EA/L, every other entry zero, and theta = 0; the   *)
(* element (0,0)-(1,0) with EA = 1 returns                                 *)
(* [[1,0,-1,0],[0,0,0,0],[-1,0,1,0],[0,0,0,0]].                            *)
AlongPlusX == coord2[2] = coord1[2] /\ coord2[1] > coord1[1]
AlongPlusY == coord2[1] = coord1[1] /\ coord2[2] > coord1[2]

C13_HorizontalTruss ==
    (pc = "truss" /\ AlongPlusX) =>
        LET a == DivN(Rat(EA), Rat(coord2[1] - coord1[1]))
        IN  /\ MatEq(K, << <<a,       Zero, NegN(a), Zero>>,
                           <<Zero,    Zero, Zero,    Zero>>,
                           <<NegN(a), Zero, a,       Zero>>,
                           <<Zero,    Zero, Zero,    Zero>> >>)
            /\ theta = Angle(0, Zero)
            /\ (coord1 = <<0, 0>> /\ coord2 = <<1, 0>> /\ EA = 1) =>
                  MatEq(K, IntMatrix(<< <<1, 0, -1, 0>>, <<0, 0, 0, 0>>,
                                        <<-1, 0, 1, 0>>, <<0, 0, 0, 0>> >>))

C13_Witness ==
    /\ pc = "truss" /\ coord1 = <<0, 0>> /\ coord2 = <<1, 0>> /\ EA = 1
    /\ K[1][3] = Rat(-1) /\ theta.halfPi = 0

(* C14: a truss along +y of length L has K[1][1] = K[3][3] = EA/L,         *)
(* K[1][3] = K[3][1] = -EA/L, every other entry zero, and theta = pi/2;    *)
(* the element (0,0)-(0,1) with EA = 1 returns                             *)
(* [[0,0,0,0],[0,1,0,-1],[0,0,0,0],[0,-1,0,1]].                            *)
C14_VerticalTruss ==
    (pc = "truss" /\ AlongPlusY) =>
        LET a == DivN(Rat(EA), Rat(coord2[2] - coord1[2]))
        IN  /\ MatEq(K, << <<Zero, Zero,    Zero, Zero   >>,
                           <<Zero, a,       Zero, NegN(a)>>,
                           <<Zero, Zero,    Zero, Zero   >>,
                           <<Zero, NegN(a), Zero, a      >> >>)
            /\ theta = Angle(1, Zero)
            /\ (coord1 = <<0, 0>> /\ coord2 = <<0, 1>> /\ EA = 1) =>
                  MatEq(K, IntMatrix(<< <<0, 0, 0, 0>>, <<0, 1, 0, -1>>,
                                        <<0, 0, 0, 0>>, <<0, -1, 0, 1>> >>))

C14_Witness ==
    /\ pc = "truss" /\ coord1 = <<0, 0>> /\ coord2 = <<0, 1>> /\ EA = 1
    /\ K[2][4] = Rat(-1) /\ theta.halfPi = 1

(* C15: for distinct endpoints the angle returned by the truss and by the  *)
(* beam is atan2(dy, dx) of the raw deltas, lies in (-pi, pi], is pi for   *)
(* an element along -x, and lies in the quadrant given by the signs of dx  *)
(* and dy.                                                                 *)
ElemDx == coord2[1] - coord1[1]
ElemDy == coord2[2] - coord1[2]

(* halfPi * (pi/2) + arctan(t) written in its one form within (-pi, pi]    *)
InHalfOpenRange(a) ==
    /\ a.k = "fin" /\ IsFin(a.t)
    /\ \/ a.halfPi = 0
       \/ a.halfPi \in {-1, 1} /\ a.t = Zero
       \/ a.halfPi = 2 /\ Sign(a.t) <= 0
       \/ a.halfPi = -2 /\ Sign(a.t) > 0

C15_AngleIsAtan2 ==
    (pc \in {"truss", "beam"} /\ Distinct) =>
        /\ theta = arctan2(Rat(ElemDy), Rat(ElemDx))
        /\ theta.t = (IF ElemDx = 0 THEN Zero ELSE Fin(ElemDy, 0, ElemDx, 1))
        /\ InHalfOpenRange(theta)
        /\ (ElemDy = 0 /\ ElemDx < 0) => theta = Angle(2, Zero)
        /\ (ElemDx > 0 /\ ElemDy > 0) => (theta.halfPi = 0 /\ Sign(theta.t) > 0)
        /\ (ElemDx > 0 /\ ElemDy < 0) => (theta.halfPi = 0 /\ Sign(theta.t) < 0)
        /\ (ElemDx < 0 /\ ElemDy > 0) => (theta.halfPi = 2 /\ Sign(theta.t) < 0)
        /\ (ElemDx < 0 /\ ElemDy < 0) => (theta.halfPi = -2 /\ Sign(theta.t) > 0)

C15_Witness ==
    /\ pc = "beam" /\ ElemDy = 0 /\ ElemDx < 0
    /\ theta = Angle(2, Zero)

(* C16: both operations return a pair (K, theta): the truss a 4x4 matrix   *)
(* and an angle, the beam a 6x6 matrix and an angle.                       *)
IsSquare(M, m) == Len(M) = m /\ \A i \in 1..m : Len(M[i]) = m

HasNonFinite(M) == \E i \in DOMAIN M : \E j \in DOMAIN M[i] : ~IsFin(M[i][j])
AllNaN(M) == \A i \in DOMAIN M : \A j \in DOMAIN M[i] : M[i][j] = NaN
AllZero(M) == \A i \in DOMAIN M : \A j \in DOMAIN M[i] : M[i][j] = Zero
AllFinite(M) == \A i \in DOMAIN M : \A j \in DOMAIN M[i] : IsFin(M[i][j])

C17_DegenerateNonFinite ==
    /\ (pc = "truss" /\ ~Distinct) => (IsSquare(K, 4) /\ HasNonFinite(K))
    /\ (pc = "beam" /\ ~Distinct) => (IsSquare(K, 6) /\ HasNonFinite(K))
    /\ (pc = "ready" /\ ~Distinct) =>
          /\ IsSquare(truss_2d_element(coord1, coord2, EA).K, 4)
          /\ HasNonFinite(truss_2d_element(coord1, coord2, EA).K)

C17_Witness ==
    /\ pc = "beam" /\ coord1 = coord2 /\ EA = 1 /\ EI = 1
    /\ ~IsFin(K[1][1]) /\ ~IsFin(K[3][3])

(* C18 as stated: with coord1 = coord2 the truss returns theta = 0 and a   *)
(* matrix whose entries are all zero.                                      *)
C18_DegenerateZero ==
    (pc = "truss" /\ ~Distinct) => (theta = Angle(0, Zero) /\ AllZero(K))

(* C18 amended: with coord1 = coord2 the truss returns theta = nan         *)
(* (arctan2 of the direction cosines 0/0) and a matrix whose entries are   *)
(* all nan.                                                                *)
C18_DegenerateNaN ==
    (pc = "truss" /\ ~Distinct) => (theta = NaNAngle /\ AllNaN(K))

C18_Witness ==
    /\ pc = "truss" /\ coord1 = coord2 /\ EA # 0
    /\ theta.k = "nan" /\ K[1][1].k = "nan"

(* C19: a call of the truss or beam operation with zero-length geometry    *)
(* fails with an InvalidGeometry error and returns no matrix.              *)
C19_ZeroLengthFails ==
    ~Distinct => (pc = "ready" /\ K = <<>>)

(* C20: stiffness inputs are not validated.  For distinct endpoints calls  *)
(* with EA <= 0 or EI <= 0 return a finite matrix; EA = 0 gives an         *)
(* all-zero truss matrix, EA = EI = 0 an all-zero beam matrix, EA < 0 a    *)
(* truss matrix with non-positive diagonal, negative-semidefinite.         *)
Dot(u, v) == SumN([i \in DOMAIN u |-> MulN(u[i], v[i])], Len(u))
QuadForm(M, v) == Dot([i \in DOMAIN v |-> Rat(v[i])], MatVec(M, v))
TestVectors4 == {<<1, 0, 0, 0>>, <<0, 1, 0, 0>>, <<1, 1, 0, 0>>, <<1, -1, 0, 0>>,
                 <<1, 0, -1, 0>>, <<0, 1, 0, -1>>, <<1, 2, -1, 0>>, <<2, -1, 0, 1>>,
                 <<1, 1, 1, 1>>, <<-1, 2, 1, -2>>}

C20_NoStiffnessValidation ==
    /\ (pc = "truss" /\ Distinct /\ EA <= 0) => AllFinite(K)
    /\ (pc = "beam" /\ Distinct /\ (EA <= 0 \/ EI <= 0)) => AllFinite(K)
    /\ (pc = "truss" /\ Distinct /\ EA = 0) => AllZero(K)
    /\ (pc = "beam" /\ Distinct /\ EA = 0 /\ EI = 0) => AllZero(K)
    /\ (pc = "truss" /\ Distinct /\ EA < 0) =>
          /\ \A i \in 1..4 : Sign(K[i][i]) <= 0
          /\ \E i \in 1..4 : Sign(K[i][i]) < 0
          /\ \A v \in TestVectors4 : Sign(QuadForm(K, v)) <= 0
    /\ (pc = "ready" /\ Distinct /\ EA <= 0) =>
          AllFinite(truss_2d_element(coord1, coord2, EA).K)

C20_Witness ==
    /\ pc = "truss" /\ Oblique /\ EA < 0
    /\ Sign(K[1][1]) < 0 /\ Sign(K[2][2]) < 0

(***************************************************************************)
(* C21: both operations are pure.  A call leaves coord1, coord2, EA and EI *)
(* as they were, and after any sequence of truss and beam calls on the     *)
(* shared inputs the pair (K, theta) held from the latest call is the pair *)
(* that call computes from its arguments alone.                            *)
(***************************************************************************)
C21_Isolated ==
    /\ pc = "truss" =>
          LET res == truss_2d_element(coord1, coord2, EA)
          IN  K = res.K /\ theta = res.theta
    /\ pc = "beam" =>
          LET res == beam_2d_element(coord1, coord2, EA, EI)
          IN  K = res.K /\ theta = res.theta

Tail2(M) == [i \in 1..(Len(M) - 1) |-> [j \in 1..(Len(M) - 1) |-> M[i + 1][j + 1]]]

SchurComplement(M) ==
    [i \in 1..(Len(M) - 1) |-> [j \in 1..(Len(M) - 1) |->
        SubN(M[i + 1][j + 1], DivN(MulN(M[i + 1][1], M[1][j + 1]), M[1][1]))]]

RECURSIVE IsPSD(_)
IsPSD(M) ==
    IF Len(M) = 0 THEN TRUE
    ELSE IF ~IsFin(M[1][1]) \/ Sign(M[1][1]) < 0 THEN FALSE
    ELSE IF Sign(M[1][1]) = 0
         THEN (\A j \in 1..Len(M) : M[1][j] = Zero) /\ IsPSD(Tail2(M))
    ELSE IsPSD(SchurComplement(M))

TestVectors6 == {<<1, 0, 0, 0, 0, 0>>, <<0, 1, 1, 0, 0, 0>>, <<1, -1, 0, 0, 2, 0>>,
                 <<0, 1, 0, 0, -1, 1>>, <<1, 2, -1, -1, 0, 1>>, <<0, 0, 1, 0, 0, -1>>,
                 <<2, -1, 1, 1, 1, -2>>}

C22_BeamPSD ==
    (pc = "beam" /\ Distinct /\ EA >= 0 /\ EI >= 0) =>
        /\ IsSymmetric(K)
        /\ \A i \in 1..6 : Sign(K[i][i]) >= 0
        /\ \A d \in TestVectors6 : Sign(QuadForm(K, d)) >= 0
        /\ IsPSD(K)

C22_Witness ==
    /\ pc = "beam" /\ Oblique /\ EA > 0 /\ EI > 0
    /\ Sign(K[1][2]) # 0 /\ Sign(K[1][3]) < 0
    /\ Sign(QuadForm(K, <<0, 0, 1, 0, 0, -1>>)) > 0
    /\ IsPSD(K)

(***************************************************************************)
(* C23: for distinct endpoints the truss called with the two nodes in the  *)
(* other order returns the same matrix, entry for entry, and an angle that *)
(* differs from theta by pi modulo 2*pi.                                   *)
(***************************************************************************)
DiffersByPi(a, b) ==
    /\ a.k = "fin" /\ b.k = "fin"
    /\ a.t = b.t
    /\ (a.halfPi - b.halfPi) % 4 = 2

C23_TrussReversal ==
    (pc = "truss" /\ Distinct) =>
        LET rev == truss_2d_element(coord2, coord1, EA)
        IN  /\ MatEq(rev.K, K)
            /\ DiffersByPi(rev.theta, theta)

C23_Witness ==
    /\ pc = "truss" /\ ElemDx > 0 /\ ElemDy > 0 /\ EA # 0
    /\ Sign(K[1][2]) # 0
    /\ theta.halfPi = 0
    /\ truss_2d_element(coord2, coord1, EA).theta.halfPi = -2
    /\ truss_2d_element(coord2, coord1, EA).K = K

(***************************************************************************)
(* C24: for distinct endpoints the beam with EI = 0 carries the truss      *)
(* matrix on its translational unknowns (numpy rows/columns 0, 1, 3, 4),   *)
(* zeros in the rotational rows and columns (2, 5), and returns the        *)
(* angle the truss returns.                                                *)
(***************************************************************************)
TranslationalDofs == <<1, 2, 4, 5>>
RotationalDofs == {3, 6}

C24_BeamTrussAxial ==
    (pc = "beam" /\ Distinct /\ EI = 0) =>
        LET tr == truss_2d_element(coord1, coord2, EA)
        IN  /\ MatEq(SubMatrix(K, TranslationalDofs), tr.K)
            /\ \A i \in 1..6 : \A j \in RotationalDofs :
                  K[i][j] = Zero /\ K[j][i] = Zero
            /\ theta = tr.theta

C24_Witness ==
    /\ pc = "beam" /\ Oblique /\ EI = 0 /\ EA # 0
    /\ Sign(K[1][2]) # 0 /\ Sign(K[4][5]) # 0
    /\ K[1][2] = truss_2d_element(coord1, coord2, EA).K[1][2]
    /\ K[3][3] = Zero

(***************************************************************************)
(* C25: for distinct endpoints the truss matrix sends the two rigid        *)
(* translations [1,0,1,0] and [0,1,0,1] to zero: in every row the entry of *)
(* a node-2 column is minus the entry of the matching node-1 column.       *)
(***************************************************************************)
C25_TrussTranslationNullSpace ==
    (pc = "truss" /\ Distinct) =>
        /\ IsZeroVector(MatVec(K, <<1, 0, 1, 0>>))
        /\ IsZeroVector(MatVec(K, <<0, 1, 0, 1>>))
        /\ \A i \in 1..4 :
              /\ AddN(K[i][1], K[i][3]) = Zero
              /\ AddN(K[i][2], K[i][4]) = Zero
              /\ K[i][3] = NegN(K[i][1])
              /\ K[i][4] = NegN(K[i][2])

C25_Witness ==
    /\ pc = "truss" /\ Oblique /\ EA # 0
    /\ Sign(K[1][1]) # 0 /\ Sign(K[2][1]) # 0
    /\ K[2][3] = NegN(K[2][1])
    /\ IsZeroVector(MatVec(K, <<1, 0, 1, 0>>))

(***************************************************************************)
(* C26: for distinct endpoints the beam called with the two nodes in the   *)
(* other order returns P K P^t, P the permutation that exchanges the       *)
(* unknowns 0,1,2 of node 1 with the unknowns 3,4,5 of node 2.             *)
(***************************************************************************)
NodeSwap == <<4, 5, 6, 1, 2, 3>>
NodeSwapMatrix == [i \in 1..6 |-> [j \in 1..6 |-> IF j = NodeSwap[i] THEN Rat(1) ELSE Zero]]

C26_BeamReversal ==
    (pc = "beam" /\ Distinct) =>
        LET rev == beam_2d_element(coord2, coord1, EA, EI).K
            PKP == MatMul(MatMul(NodeSwapMatrix, K), Transpose(NodeSwapMatrix))
        IN  /\ MatEq(rev, PKP)
            /\ PKP = SubMatrix(K, NodeSwap)

C26_Witness ==
    /\ pc = "beam" /\ Oblique /\ EA # 0 /\ EI # 0
    /\ Sign(K[1][3]) # 0
    /\ K[1][3] # K[4][6]
    /\ beam_2d_element(coord2, coord1, EA, EI).K[4][6] = K[1][3]

(***************************************************************************)
(* C27: for distinct endpoints the transformation T built from c = dx/L,   *)
(* s = dy/L is orthogonal, T^t T = identity, since c^2 + s^2 = 1; for an   *)
(* element along +x, T is the identity and K equals K_local entry for      *)
(* entry; for every orientation trace(K) = trace(K_local).                 *)
(***************************************************************************)
Identity6 == [i \in 1..6 |-> [j \in 1..6 |-> IF i = j THEN Rat(1) ELSE Zero]]

C27_TOrthogonal ==
    (pc = "beam" /\ Distinct) =>
        LET T  == T_gl_to_loc(ElemC, ElemS)
            Kl == K_local(EA, EI, ElemL)
        IN  /\ AddN(PowN(ElemC, 2), PowN(ElemS, 2)) = Rat(1)
            /\ MatEq(MatMul(Transpose(T), T), Identity6)
            /\ AlongPlusX => (T = Identity6 /\ MatEq(K, Kl))
            /\ NumEq(Trace(K), Trace(Kl))

C27_Witness ==
    /\ pc = "beam" /\ Oblique /\ EA # 0 /\ EI # 0 /\ EA # EI
    /\ T_gl_to_loc(ElemC, ElemS) # Identity6
    /\ K # K_local(EA, EI, ElemL)
    /\ Sign(Trace(K)) # 0
    /\ Trace(K) = Trace(K_local(EA, EI, ElemL))

(***************************************************************************)
(* C28: the load-stepping loop runs the steps n = 1, 2, ..., 9 in this     *)
(* order and no tenth; at the n-th call of solver.solve the traction is    *)
(* (0, 0, -1.5 n), x and y never written; every step calls the solver once *)
(* on u as the step before left it, and then writes one frame; the plotter *)
(* is closed only after the frame of step 9.                               *)
(***************************************************************************)
LoadOf(i) == <<Zero, Zero, Fin(-3 * i, 0, 2, 1)>>
LastStep == RangeStop - 1

Identity2 == << <<Rat(1), Zero>>, <<Zero, Rat(1)>> >>
Node2Block == <<3, 4>>

C29_EBInverse ==
    LET L == Rat(len)
        S == S_EB(EI, L)
        Kc == K_EB_2x2(EI, L)
    IN  /\ len > 0 /\ EI > 0
        /\ MatEq(MatMul(S, Kc), Identity2)
        /\ MatEq(MatMul(Kc, S), Identity2)
        /\ pc = "castigliano" => <<displacement, rotation>> = S
        /\ pc = "hermite" => MatEq(SubMatrix(K, Node2Block), Kc)
        /\ MatEq(SubMatrix(K_EB(EI, L), Node2Block), Kc)

C29_Witness ==
    /\ pc = "hermite" /\ len > 1 /\ EI > 1
    /\ Sign(K[3][4]) < 0
    /\ K[3][4] = K_EB_2x2(EI, Rat(len))[1][2]
    /\ displacement = S_EB(EI, Rat(len))[1]
    /\ MatMul(S_EB(EI, Rat(len)), SubMatrix(K, Node2Block)) = Identity2

(***************************************************************************)
(* C30: for L > 0, EI > 0 and Psi >= 0 the Timoshenko cantilever stiffness *)
(* is the inverse of the compliance, S_T K_T = identity, with              *)
(* Psi = 12 EI / (G A_eff L^2); for Psi = 0 both are the Euler-Bernoulli   *)
(* matrices.                                                               *)
(***************************************************************************)
PsiSamples == {Zero, Fin(1, 0, 2, 1), Rat(1), Fin(7, 0, 3, 1), Rat(12)}

C30_TimoshenkoInverse ==
    LET L == Rat(len)
        psi == Psi(EI, G, A_eff, L)
    IN  /\ len > 0 /\ EI > 0 /\ Sign(psi) >= 0
        /\ \A p \in PsiSamples \cup {psi} :
              /\ MatEq(MatMul(S_T(EI, L, p), K_T_2x2(EI, L, p)), Identity2)
              /\ MatEq(MatMul(K_T_2x2(EI, L, p), S_T(EI, L, p)), Identity2)
        /\ S_T(EI, L, Zero) = S_EB(EI, L)
        /\ K_T_2x2(EI, L, Zero) = K_EB_2x2(EI, L)
        /\ pc = "castigliano_shear" => <<displacement, rotation>> = S_T(EI, L, psi)

C30_Witness ==
    /\ pc = "castigliano_shear" /\ len > 1 /\ EI > 1 /\ G > 1
    /\ Psi(EI, G, A_eff, Rat(len)).d # 1
    /\ displacement[1] # S_EB(EI, Rat(len))[1][1]
    /\ <<displacement, rotation>> = S_T(EI, Rat(len), Psi(EI, G, A_eff, Rat(len)))
    /\ MatMul(<<displacement, rotation>>,
              K_T_2x2(EI, Rat(len), Psi(EI, G, A_eff, Rat(len)))) = Identity2

====
